---- MODULE Spec2Model ----
(***************************************************************************)
(* A model of pynessus' Nessus client (src/pynessus/nessus.py): the        *)
(* request/session layer (_request, _api_request, login, logout,           *)
(* server_version) and the resource loading operations (load_*, load).     *)
(*                                                                         *)
(* Every method of the class is an operator that takes a context c and     *)
(* returns a result [c, exc, val]: c.o is the Nessus object after the      *)
(* call, c.wire the events observed so far (connections created, requests  *)
(* sent, exceptions of the transport, responses received, methods          *)
(* entered), c.faults the outcomes the transport still has in store for    *)
(* the next calls of HTTPSConnection.request, c.srv the answers of the     *)
(* server and c.session what the server granted this client: the token of  *)
(* the last login that succeeded, the credentials it was given, and        *)
(* whether a logout revoked the token since.                               *)
(* exc is "none" when the method returned val and the name of the          *)
(* exception when it raised.                                               *)
(***************************************************************************)
EXTENDS Integers, Sequences, FiniteSets, TLC

VARIABLES server, nessus, session, wire, result, nloads

vars == <<server, nessus, session, wire, result, nloads>>

(***************************************************************************)
(* Bounds of the model.                                                    *)
(***************************************************************************)
\* load operations a caller issues in one behaviour
MaxLoads == 2
\* records in one collection of the server
MaxRecs == 2
\* transport faults the environment injects during one operation
MaxFaults == 2

(***************************************************************************)
(* Python values.                                                          *)
(***************************************************************************)
None == [none |-> TRUE]

\* a str whose characters the code indexes
Str(chars) == [chars |-> chars]

\* a JSON array
List(items) == [list |-> items]

Ret(c, v) == [c |-> c, exc |-> "none", val |-> v]

Raise(c, e) == [c |-> c, exc |-> e, val |-> None]

Emit(c, e) == [c EXCEPT !.wire = Append(@, e)]

SetO(c, o) == [c EXCEPT !.o = o]

Target(path) == [path |-> path, id |-> 0]

TargetOf(path, id) == [path |-> path, id |-> id]

\* the falsy values the callers pass as params: "", {} and []
EmptyStr == [str |-> ""]

EmptyDict == [dict |-> "{}"]

EmptyList == [list |-> <<>>]

\* a response body of length 0
EmptyBody == [empty |-> TRUE]

Json(v) == [json |-> v]

Html(text) == [html |-> text]

Http(status, body) == [status |-> status, body |-> body]

(***************************************************************************)
(* The server (spec section 6).  family and notfound are fixed for a       *)
(* behaviour; srv.session is its answer to POST /session and srv.data its  *)
(* answers to the other endpoints during one operation of the client.      *)
(***************************************************************************)
NotFoundPage(srv) ==
  IF srv.notfound = "page" THEN Http(200, Html("404 File not found"))
  ELSE Http(404, Html("404 File not found"))

Respond(srv, method, target) ==
  IF target.path = "/nessus6.html" THEN
    IF srv.family = "6" THEN Http(200, Html("Nessus 6")) ELSE NotFoundPage(srv)
  ELSE IF target.path = "/html5.html" THEN
    IF srv.family = "5" THEN Http(200, Html("Nessus 5")) ELSE NotFoundPage(srv)
  ELSE IF target.path = "/session" THEN
    IF method = "POST" THEN srv.session ELSE Http(200, EmptyBody)
  ELSE IF target \in DOMAIN srv.data THEN srv.data[target]
  ELSE NotFoundPage(srv)

(***************************************************************************)
(* httplib.HTTPSConnection, as far as the client uses it.                  *)
(***************************************************************************)
\* HTTPSConnection(url, port[, context=ctx]) assigned to self._connection
HTTPSConnection(c, verified) ==
  Emit(SetO(c, [c.o EXCEPT !._connection =
                   [verified |-> verified, pending |-> None]]),
       [ev |-> "connect", verified |-> verified])

StaleConnection == {"CannotSendRequest", "ImproperConnectionState"}

\* self._connection.request(method, target, params, headers): the transport
\* decides whether the call raises; a request that went out waits for
\* getresponse
connection_request(c, method, target, params, headers) ==
  LET outcome == IF c.faults = <<>> THEN "ok" ELSE Head(c.faults)
      c1 == [c EXCEPT !.faults = IF c.faults = <<>> THEN <<>> ELSE Tail(@)]
      req == [ev |-> "send", method |-> method, target |-> target,
              params |-> params, headers |-> headers, session |-> c.session]
  IN IF outcome = "ok"
     THEN Ret(Emit(SetO(c1, [c1.o EXCEPT !._connection.pending = req]), req),
              None)
     ELSE Raise(Emit(c1, [ev |-> "raise", exc |-> outcome, method |-> method,
                          target |-> target]),
                outcome)

\* self._connection.getresponse(): httplib raises ResponseNotReady unless a
\* request was sent on this connection and its response not yet obtained
getresponse(c) ==
  LET req == c.o._connection.pending
      response == Respond(c.srv, req.method, req.target)
  IN IF req = None THEN Raise(c, "ResponseNotReady")
     ELSE Ret(Emit(SetO(c, [c.o EXCEPT !._connection.pending = None]),
                   [ev |-> "recv", method |-> req.method,
                    target |-> req.target, response |-> response]),
              response)

(***************************************************************************)
(* Nessus._request, _api_request, login, logout, server_version, status    *)
(***************************************************************************)
\* sequencing of two statements: an exception of the first skips the second
Bind(r, K(_)) == IF r.exc # "none" THEN r ELSE K(r)

RECURSIVE _request(_, _, _, _, _)
RECURSIVE _api_request(_, _, _, _)
RECURSIVE login(_, _)
RECURSIVE server_version(_)

\* the method op was entered (history of the run)
Called(c, op) == Emit(c, [ev |-> "call", op |-> op])

\* the two identical handlers of CannotSendRequest and ImproperConnectionState:
\* a connection without the context, login, the request again, whose return
\* value is not used
RecoverStale(c, method, target, params) ==
  Bind(login(HTTPSConnection(c, TRUE), c.o._user),
       LAMBDA l :
         Bind(_request(Called(l.c, "_request"), method, target, params,
                       l.c.o._headers),
              LAMBDA r : Ret(r.c, None)))

\* response = self._connection.getresponse() and the status test
ReadResponse(c) ==
  Bind(getresponse(c),
       LAMBDA g : IF g.val.status = 200 THEN Ret(g.c, g.val.body)
                  ELSE Raise(g.c, "Exception"))

\* the first statement of the try block
Connected(c) ==
  IF c.o._connection = None THEN HTTPSConnection(c, c.o._verify) ELSE c

\* the except clauses, given the outcome of connection.request
Handled(sent, method, target, params) ==
  IF sent.exc = "none" THEN sent
  ELSE IF sent.exc \in StaleConnection
  THEN RecoverStale(sent.c, method, target, params)
  ELSE IF sent.exc = "ECONNREFUSED" THEN Raise(sent.c, "CantConnect")
  ELSE sent

SendOn(c, method, target, params, headers) ==
  connection_request(c, method, target, params,
                     IF headers = None THEN c.o._headers ELSE headers)

_request(c, method, target, params, headers) ==
  Bind(Handled(SendOn(Connected(c), method, target, params, headers),
               method, target, params),
       LAMBDA h : ReadResponse(h.c))

\* json.dumps(params) after "if not params: params = {}"
Dumps(params) ==
  IF params \in {None, EmptyStr, EmptyDict, EmptyList} THEN EmptyDict
  ELSE params

\* a JSON string
JsonStr(text) == [str |-> text]

\* "error" in response: a key of an object, an element of an array
InResponse(key, response) ==
  IF "list" \in DOMAIN response
  THEN \E i \in DOMAIN response.list : response.list[i] = JsonStr(key)
  ELSE key \in DOMAIN response

\* NessusAPIError(response["error"]): an array has no index "error"
ErrorOf(c, response) ==
  IF "list" \in DOMAIN response THEN Raise(c, "TypeError")
  ELSE Raise(c, "NessusAPIError")

\* the statements of _api_request after the request
Parsed(raw) ==
  IF raw.val # None /\ raw.val # EmptyBody
  THEN IF "json" \notin DOMAIN raw.val THEN Raise(raw.c, "ValueError")
       ELSE IF raw.val.json # None /\ InResponse("error", raw.val.json)
       THEN ErrorOf(raw.c, raw.val.json)
       ELSE Ret(raw.c, raw.val.json)
  ELSE Ret(raw.c, None)

_api_request(c, method, target, params) ==
  Bind(_request(c, method, target, Dumps(params), None), Parsed)

\* self._server_version = "..." and the return of the property
SetVersion(c, chars) ==
  Ret(SetO(c, [c.o EXCEPT !._server_version = Str(chars)]), Str(chars))

server_version(c) ==
  IF c.o._server_version # None THEN Ret(c, c.o._server_version)
  ELSE Bind(_request(c, "GET", Target("/nessus6.html"), EmptyStr, None),
            LAMBDA p :
              IF p.val # Html("404 File not found")
              THEN SetVersion(p.c, <<"6", ".", "x">>)
              ELSE Bind(_request(p.c, "GET", Target("/html5.html"),
                                 EmptyStr, None),
                        LAMBDA q :
                          IF q.val # None
                          THEN SetVersion(q.c, <<"5", ".", "x">>)
                          ELSE SetVersion(q.c, <<"u", "n", "k", "n", "o",
                                                 "w", "n">>)))

\* params = {'username': user.username, 'password': user.password}
Credentials(user) == [username |-> user.username, password |-> user.password]

\* 'token=%s' % (response['token'])
Cookie(token) == [prefix |-> "token=", token |-> token]

\* login that stores the token in the user and leaves self._headers alone
StoreSessionNoHeader(c, user, token) ==
  SetO(c, [c.o EXCEPT !._user = [user EXCEPT !.token = token]])

\* self._user = user; self._user.token = token; self._headers["X-Cookie"] = ...
StoreSession(c, user, token) ==
  SetO(c, [c.o EXCEPT !._user = [user EXCEPT !.token = token],
                      !._headers = ("X-Cookie" :> Cookie(token)) @@ @])

\* the server granted the token of a login that returns True
Granted(c, user, token) ==
  [c EXCEPT !.session = [granted |-> [token |-> token], revoked |-> FALSE,
                         credentials |-> Credentials(user)]]

\* the statements of login after the POST
LoggedIn(a, user) ==
  IF a.val = None THEN Ret(a.c, FALSE)
  ELSE IF "status" \in DOMAIN a.val THEN Raise(a.c, "LoginStatus")
  ELSE IF "token" \notin DOMAIN a.val
  THEN Raise(SetO(a.c, [a.c.o EXCEPT !._user = user]), "KeyError")
  ELSE Ret(Granted(StoreSession(a.c, user, a.val.token), user, a.val.token),
          TRUE)

\* login without the version test
SupportedAny(version) == TRUE

\* the version test of login
Supported(version) == Head(version.chars) = "6"

login(c, user) ==
  Bind(server_version(Called(c, "login")),
       LAMBDA v :
         IF ~Supported(v.val) THEN Raise(v.c, "Unsupported")
         ELSE IF user = None THEN Raise(v.c, "AttributeError")
         ELSE Bind(_api_request(v.c, "POST", Target("/session"),
                                Credentials(user)),
                   LAMBDA a : LoggedIn(a, user)))

\* the server ended the session of a logout that returns
Revoked(c) == [c EXCEPT !.session.revoked = TRUE]

logout(c) ==
  Bind(_request(Called(c, "logout"), "DELETE", Target("/session"),
                EmptyList, None),
       LAMBDA r : Ret(Revoked(r.c), TRUE))

status(c) ==
  Bind(_api_request(Called(c, "status"), "GET", Target("/server/status"),
                    EmptyStr),
       LAMBDA a :
         IF a.val # None
         THEN IF "status" \in DOMAIN a.val THEN Ret(a.c, a.val.status)
              ELSE Raise(a.c, "KeyError")
         ELSE Ret(a.c, "unknown"))

(***************************************************************************)
(* Nessus._encode, upload_file, import_policy, import_scan                 *)
(***************************************************************************)
\* the content type _encode returns
Multipart == "multipart/form-data; boundary=----------bundary------"

\* the value False where a method returns a name or False
PyFalse == [bool |-> FALSE]

\* json.loads(body), where a body that is not JSON raises, then
\* "fileuploaded" in response and the two returns
FileUploaded(c, body) ==
  IF "json" \notin DOMAIN body THEN Raise(c, "ValueError")
  ELSE LET response == body.json
       IN IF response = None THEN Raise(c, "TypeError")
          ELSE IF InResponse("fileuploaded", response)
          THEN IF "list" \in DOMAIN response THEN Raise(c, "TypeError")
               ELSE Ret(c, response.fileuploaded)
          ELSE Ret(c, PyFalse)

\* headers = self._headers; headers["Content-type"] = content_type: headers
\* is the dictionary of the object itself
SetContentType(c, content_type) ==
  SetO(c, [c.o EXCEPT !._headers = ("Content-type" :> content_type) @@ @])

upload_file(c, filename, isfile) ==
  IF ~isfile THEN Raise(Called(c, "upload_file"), "Exception")
  ELSE LET h == SetContentType(Called(c, "upload_file"), Multipart)
       IN Bind(_request(h, "POST", Target("/file/upload"),
                        [form |-> filename], h.o._headers),
               LAMBDA r : FileUploaded(r.c, r.val))

\* if uploaded_file:
Truthy(v) == v # PyFalse /\ v # None /\ v # JsonStr("")

import_policy(c, filename, isfile) ==
  Bind(upload_file(Called(c, "import_policy"), filename, isfile),
       LAMBDA u :
         IF Truthy(u.val)
         THEN Bind(_api_request(u.c, "POST", Target("/policies/import"),
                                [file |-> u.val]),
                   LAMBDA a : Ret(a.c, a.val = None))
         ELSE Raise(u.c, "Exception"))

\* params of import_scan: folder_id and password only when given
ImportParams(file, folder_id, password) ==
  [key \in {"file"}
          \cup (IF folder_id # None THEN {"folder_id"} ELSE {})
          \cup (IF password # None THEN {"password"} ELSE {}) |->
     IF key = "file" THEN file
     ELSE IF key = "folder_id" THEN folder_id ELSE password]

import_scan(c, filename, isfile, folder_id, password) ==
  Bind(upload_file(Called(c, "import_scan"), filename, isfile),
       LAMBDA u :
         IF Truthy(u.val)
         THEN Bind(_api_request(u.c, "POST", Target("/scans/import"),
                                ImportParams(u.val, folder_id, password)),
                   LAMBDA a : Ret(a.c, a.val = None))
         ELSE Ret(u.c, None))

(***************************************************************************)
(* Hydration: the attribute assignments of the load_* loops.  A record     *)
(* that lacks a key the loop reads raises KeyError, and the instance under *)
(* construction is never appended.                                         *)
(***************************************************************************)
\* the default a conditional expression gives an optional key
Dflt(x) == [dflt |-> x]

Kinds ==
  {"scanners", "agents", "agentgroups", "policies", "scans", "folders",
   "templates", "users"}

\* the key of the response that holds the records of a kind
KeyOf(kind) == IF kind = "agentgroups" THEN "groups" ELSE kind

\* the keys of a record the loop of a kind reads unconditionally
Required(kind, users) ==
  CASE kind = "scanners" ->
         {"id", "uuid", "name", "type", "status", "scan_count",
          "engine_version", "platform", "loaded_plugin_set",
          "registration_code", "owner"}
    [] kind = "agents" ->
         {"distros", "id", "ip", "last_scanned", "name", "platform", "token",
          "uuid"}
    [] kind = "agentgroups" ->
         {"id", "name", "owner_id", "owner", "shared", "user_permissions",
          "creation_date", "last_modification_date"}
    [] kind = "policies" ->
         {"id", "template_uuid", "name", "owner", "creation_date",
          "visibility", "shared", "user_permissions",
          "last_modification_date"}
    [] kind = "scans" ->
         {"status", "name", "read", "last_modification_date",
          "creation_date", "user_permissions", "shared", "id", "uuid",
          "folder_id"}
         \cup (IF users # <<>> THEN {"owner_id"} ELSE {})
    [] kind = "folders" -> {"id", "custom", "default_tag", "name"}
    [] kind = "templates" ->
         {"uuid", "title", "name", "desc", "cloud_only", "subscription_only"}
    [] kind = "users" ->
         {"lastlogin", "permissions", "type", "name", "username", "id"}

\* for user in self.users: if user.id == s["owner_id"]: scan.owner = user
\* (self.users issues no fetch: self._users is a list, never None)
OwnerOf(s, users) ==
  LET hits == {k \in 1..Len(users) : users[k].id = s.owner_id}
  IN IF hits = {} THEN None
     ELSE users[CHOOSE k \in hits : \A j \in hits : j <= k]

Hydrate(kind, r, users, scanner_id) ==
  CASE kind = "scanners" ->
         [id |-> r.id, uuid |-> r.uuid, name |-> r.name, type |-> r.type,
          status |-> r.status, scan_count |-> r.scan_count,
          engine_version |-> r.engine_version, platform |-> r.platform,
          loaded_plugin_set |-> r.loaded_plugin_set,
          registration_code |-> r.registration_code, owner |-> r.owner]
    [] kind = "agents" ->
         [distros |-> r.distros, id |-> r.id, ip |-> r.ip,
          last_scanned |-> r.last_scanned, name |-> r.name,
          platform |-> r.platform, token |-> r.token, uuid |-> r.uuid,
          scanner_id |-> scanner_id]
    [] kind = "agentgroups" ->
         [id |-> r.id, name |-> r.name, owner_id |-> r.owner_id,
          owner |-> r.owner, shared |-> r.shared,
          user_permissions |-> r.user_permissions,
          creation_date |-> r.creation_date,
          last_modification_date |-> r.last_modification_date]
    [] kind = "policies" ->
         [id |-> r.id, template_uuid |-> r.template_uuid, name |-> r.name,
          owner |-> r.owner, creation_date |-> r.creation_date,
          no_target |-> IF "no_target" \in DOMAIN r THEN r.no_target
                        ELSE Dflt(FALSE),
          visibility |-> r.visibility, shared |-> r.shared,
          user_permissions |-> r.user_permissions,
          last_modification_date |-> r.last_modification_date]
    [] kind = "scans" ->
         [status |-> r.status, name |-> r.name, read |-> r.read,
          last_modification_date |-> r.last_modification_date,
          creation_date |-> r.creation_date,
          user_permissions |-> r.user_permissions, shared |-> r.shared,
          id |-> r.id,
          template |-> [uuid |-> r.uuid],
          folder |-> [id |-> r.folder_id],
          owner |-> IF users = <<>> THEN None ELSE OwnerOf(r, users)]
    [] kind = "folders" ->
         [id |-> r.id,
          type |-> IF "type" \in DOMAIN r THEN r.type ELSE Dflt("local"),
          custom |-> r.custom, default_tag |-> r.default_tag,
          name |-> r.name,
          unread_count |-> IF "unread_count" \in DOMAIN r THEN r.unread_count
                           ELSE Dflt(0)]
    [] kind = "templates" ->
         [uuid |-> r.uuid, title |-> r.title, name |-> r.name,
          description |-> r.desc,
          more_info |-> IF "more_info" \in DOMAIN r THEN r.more_info
                        ELSE None,
          cloud_only |-> r.cloud_only,
          subscription_only |-> r.subscription_only]
    [] kind = "users" ->
         [last_login |-> r.lastlogin, permissions |-> r.permissions,
          type |-> r.type, name |-> r.name, username |-> r.username,
          id |-> r.id]

\* the loop with the back-reference of an instance taken from its own record
HydrateAllOwnId(kind, records, users, scanner_id) ==
  LET bad == {k \in 1..Len(records) :
                ~(Required(kind, users) \subseteq DOMAIN records[k])}
      stop == IF bad = {} THEN Len(records) + 1
              ELSE CHOOSE k \in bad : \A j \in bad : k <= j
  IN [items |-> [k \in 1..(stop - 1) |->
                   Hydrate(kind, records[k], users, records[k].id)],
      failed |-> bad # {}]

\* the loop "for r in records": the instances built before the first record
\* that raises KeyError, and whether one did
HydrateAll(kind, records, users, scanner_id) ==
  LET bad == {k \in 1..Len(records) :
                ~(Required(kind, users) \subseteq DOMAIN records[k])}
      stop == IF bad = {} THEN Len(records) + 1
              ELSE CHOOSE k \in bad : \A j \in bad : k <= j
  IN [items |-> [k \in 1..(stop - 1) |->
                   Hydrate(kind, records[k], users, scanner_id)],
      failed |-> bad # {}]

\* the collection attribute of a kind: self._scanners, self._agents, ...
Coll(o, kind) ==
  CASE kind = "scanners" -> o._scanners
    [] kind = "agents" -> o._agents
    [] kind = "agentgroups" -> o._agentgroups
    [] kind = "policies" -> o._policies
    [] kind = "scans" -> o._scans
    [] kind = "folders" -> o._folders
    [] kind = "templates" -> o._templates
    [] kind = "users" -> o._users

(***************************************************************************)
(* The load operations.                                                    *)
(***************************************************************************)
\* self._<attr> = [] / = list
Assign(c, attr, items) == SetO(c, [c.o EXCEPT ![attr] = List(items)])

\* self._<attr>.append(instance) for every instance the loop built, and the
\* KeyError of the record that stopped it
Appended(c, attr, h) ==
  IF h.failed
  THEN Raise(Assign(c, attr, c.o[attr].list \o h.items), "KeyError")
  ELSE Ret(Assign(c, attr, c.o[attr].list \o h.items), TRUE)

\* appends to self._scanners, which no statement of the method resets
load_scanners(c) ==
  Bind(_api_request(Called(c, "load_scanners"), "GET", Target("/scanners"),
                    None),
       LAMBDA a :
         IF a.val = None THEN Raise(a.c, "TypeError")
         ELSE IF "scanners" \in DOMAIN a.val
         THEN IF a.val.scanners = None THEN Raise(a.c, "TypeError")
              ELSE Appended(a.c, "_scanners",
                            HydrateAll("scanners", a.val.scanners.list,
                                       <<>>, 0))
         ELSE Ret(a.c, TRUE))

\* one fetch per scanner of self._scanners, from the k-th on; appends to
\* self._agents, which no statement of the method resets
RECURSIVE AgentsFrom(_, _)
AgentsFrom(c, k) ==
  IF k > Len(c.o._scanners.list) THEN Ret(c, TRUE)
  ELSE Bind(_api_request(c, "GET",
                         TargetOf("/scanners/%d/agents",
                                  c.o._scanners.list[k].id), None),
            LAMBDA a :
              IF a.val = None THEN Raise(a.c, "TypeError")
              ELSE IF "agents" \in DOMAIN a.val /\ a.val.agents # None
              THEN Bind(Appended(a.c, "_agents",
                                 HydrateAll("agents", a.val.agents.list, <<>>,
                                            c.o._scanners.list[k].id)),
                        LAMBDA r : AgentsFrom(r.c, k + 1))
              ELSE AgentsFrom(a.c, k + 1))

load_agents(c) == AgentsFrom(Called(c, "load_agents"), 1)

RECURSIVE AgentGroupsFrom(_, _)
AgentGroupsFrom(c, k) ==
  IF k > Len(c.o._scanners.list) THEN Ret(c, TRUE)
  ELSE Bind(_api_request(c, "GET",
                         TargetOf("/scanners/%d/agent-groups",
                                  c.o._scanners.list[k].id), None),
            LAMBDA a :
              IF a.val = None THEN Raise(a.c, "TypeError")
              ELSE IF "groups" \in DOMAIN a.val /\ a.val.groups # None
              THEN Bind(Appended(a.c, "_agentgroups",
                                 HydrateAll("agentgroups", a.val.groups.list,
                                            <<>>, 0)),
                        LAMBDA r : AgentGroupsFrom(r.c, k + 1))
              ELSE AgentGroupsFrom(a.c, k + 1))

load_agentgroups(c) == AgentGroupsFrom(Called(c, "load_agentgroups"), 1)

\* resets self._templates before it looks at the response
load_templates(c) ==
  Bind(_api_request(Called(c, "load_templates"), "GET",
                    Target("/editor/scan/templates"), EmptyStr),
       LAMBDA a :
         IF a.val = None
         THEN Raise(Assign(a.c, "_templates", <<>>), "TypeError")
         ELSE IF "templates" \in DOMAIN a.val
         THEN IF a.val.templates = None
              THEN Raise(Assign(a.c, "_templates", <<>>), "TypeError")
              ELSE Appended(Assign(a.c, "_templates", <<>>), "_templates",
                            HydrateAll("templates", a.val.templates.list,
                                       <<>>, 0))
         ELSE Ret(Assign(a.c, "_templates", <<>>), TRUE))

\* a load_users that drops the owner of every scan whose user is gone
UsersBuiltRepairing(c, h) ==
  IF h.failed THEN Raise(c, "KeyError")
  ELSE Ret(Assign(Assign(c, "_users", h.items), "_scans",
                  [k \in DOMAIN c.o._scans.list |->
                     IF \E u \in DOMAIN h.items :
                          h.items[u] = c.o._scans.list[k].owner
                     THEN c.o._scans.list[k]
                     ELSE [c.o._scans.list[k] EXCEPT !.owner = None]]),
           TRUE)

\* the local list users replaces self._users once the loop is through
UsersBuilt(c, h) ==
  IF h.failed THEN Raise(c, "KeyError")
  ELSE Ret(Assign(c, "_users", h.items), TRUE)

\* builds a local list and assigns it at the end; False without the key
load_users(c) ==
  Bind(_api_request(Called(c, "load_users"), "GET", Target("/users"), None),
       LAMBDA a :
         IF a.val = None THEN Raise(a.c, "TypeError")
         ELSE IF "users" \in DOMAIN a.val
         THEN IF a.val.users = None THEN Raise(a.c, "TypeError")
              ELSE UsersBuilt(a.c, HydrateAll("users", a.val.users.list,
                                              <<>>, 0))
         ELSE Ret(a.c, FALSE))

\* the users property with the guard of the scanners property, "not len(...)"
users_when_empty(c) ==
  IF c.o._users = None \/ c.o._users.list = <<>>
  THEN Bind(load_users(c), LAMBDA l : Ret(l.c, l.c.o._users))
  ELSE Ret(c, c.o._users)

\* the users property: loads the users when self._users is None
users(c) ==
  IF c.o._users = None
  THEN Bind(load_users(c), LAMBDA l : Ret(l.c, l.c.o._users))
  ELSE Ret(c, c.o._users)

\* the loop of load_scans over a list with a record: every record reads
\* self.users
ScansLoop(c, records) ==
  Bind(users(c),
       LAMBDA u : Appended(u.c, "_scans",
                           HydrateAll("scans", records, u.val.list, 0)))

\* resets self._scans before it looks at the response
load_scans(c) ==
  Bind(_api_request(Called(c, "load_scans"), "GET", Target("/scans"),
                    EmptyStr),
       LAMBDA a :
         IF a.val = None THEN Raise(Assign(a.c, "_scans", <<>>), "TypeError")
         ELSE IF "scans" \in DOMAIN a.val /\ a.val.scans # None
         THEN IF a.val.scans.list = <<>>
              THEN Ret(Assign(a.c, "_scans", <<>>), TRUE)
              ELSE ScansLoop(Assign(a.c, "_scans", <<>>), a.val.scans.list)
         ELSE Ret(Assign(a.c, "_scans", <<>>), TRUE))

\* resets self._folders once the key is there; False without the key
load_folders(c) ==
  Bind(_api_request(Called(c, "load_folders"), "GET", Target("/folders"),
                    None),
       LAMBDA a :
         IF a.val = None THEN Raise(a.c, "TypeError")
         ELSE IF "folders" \in DOMAIN a.val
         THEN IF a.val.folders = None
              THEN Raise(Assign(a.c, "_folders", <<>>), "TypeError")
              ELSE Appended(Assign(a.c, "_folders", <<>>), "_folders",
                            HydrateAll("folders", a.val.folders.list,
                                       <<>>, 0))
         ELSE Ret(a.c, FALSE))

\* resets self._policies once the key is there and not null
load_policies(c) ==
  Bind(_api_request(Called(c, "load_policies"), "GET", Target("/policies"),
                    None),
       LAMBDA a :
         IF a.val = None THEN Raise(a.c, "TypeError")
         ELSE IF "policies" \in DOMAIN a.val /\ a.val.policies # None
         THEN Appended(Assign(a.c, "_policies", <<>>), "_policies",
                       HydrateAll("policies", a.val.policies.list, <<>>, 0))
         ELSE Ret(a.c, TRUE))

(***************************************************************************)
(* The read properties of the collections.                                 *)
(***************************************************************************)
\* the return of a property after the load it ran, if it ran one
Read(l, attr) == Bind(l, LAMBDA r : Ret(r.c, r.c.o[attr]))

agents(c) ==
  IF c.o._agents = None THEN Read(load_agents(c), "_agents")
  ELSE Ret(c, c.o._agents)

\* the guarded call names load_agentgrous, which the class does not define
agentgroups(c) ==
  IF c.o._agentgroups = None THEN Raise(c, "AttributeError")
  ELSE Ret(c, c.o._agentgroups)

scanners(c) ==
  IF Len(c.o._scanners.list) = 0 THEN Read(load_scanners(c), "_scanners")
  ELSE Ret(c, c.o._scanners)

scans(c) ==
  IF c.o._scans = None THEN Read(load_scans(c), "_scans")
  ELSE Ret(c, c.o._scans)

policies(c) ==
  IF c.o._policies = None THEN Read(load_policies(c), "_policies")
  ELSE Ret(c, c.o._policies)

templates(c) ==
  IF Len(c.o._templates.list) = 0 THEN Read(load_templates(c), "_templates")
  ELSE Ret(c, c.o._templates)

\* a folders property that loads on every read
folders_always(c) == Read(load_folders(c), "_folders")

folders(c) ==
  IF Len(c.o._folders.list) = 0 THEN Read(load_folders(c), "_folders")
  ELSE Ret(c, c.o._folders)

\* the assignments of load_properties, in the order of the method:
\* <<attribute, key of the response>>
PropertyOrder ==
  <<<<"_loaded_plugin_set", "loaded_plugin_set">>,
    <<"_uuid", "server_uuid">>,
    <<"_expiration", "expiration">>,
    <<"_nessus_ui_version", "nessus_ui_version">>,
    <<"_nessus_type", "nessus_type">>,
    <<"_notifications", "notifications">>,
    <<"_capabilities", "capabilities">>,
    <<"_plugin_set", "plugin_set">>,
    <<"_idle_timeout", "idle_timeout">>,
    <<"_scanner_boottime", "scanner_boottime">>,
    <<"_server_version", "server_version">>>>

\* the object after the first n assignments of load_properties
AssignProperties(o, response, n) ==
  [attr \in DOMAIN o |->
     IF \E k \in 1..n : PropertyOrder[k][1] = attr
     THEN response[PropertyOrder[
            CHOOSE k \in 1..n : PropertyOrder[k][1] = attr][2]]
     ELSE o[attr]]

\* the keys of PropertyOrder the response lacks
MissingProperties(response) ==
  {k \in 1..Len(PropertyOrder) : PropertyOrder[k][2] \notin DOMAIN response}

\* the assignments up to the first key the response lacks, which raises
PropertiesAssigned(c, response, missing) ==
  IF missing = {}
  THEN Ret(SetO(c, AssignProperties(c.o, response, Len(PropertyOrder))), TRUE)
  ELSE Raise(SetO(c, AssignProperties(c.o, response,
               (CHOOSE k \in missing : \A j \in missing : k <= j) - 1)),
             "KeyError")

load_properties(c) ==
  Bind(_api_request(Called(c, "load_properties"), "GET",
                    Target("/server/properties?json=1"), EmptyDict),
       LAMBDA a :
         IF a.val # None
         THEN PropertiesAssigned(a.c, a.val, MissingProperties(a.val))
         ELSE Ret(a.c, FALSE))

\* Mail.load() and Proxy.load() of models/mail.py and models/proxy.py: one
\* fetch of the settings, stored in the instance
SettingsLoad(c, slot, path) ==
  Bind(_api_request(c, "GET", Target(path), None),
       LAMBDA a :
         IF a.val = None THEN Ret(a.c, FALSE)
         ELSE Ret(SetO(a.c, [a.c.o EXCEPT ![slot] = [settings |-> a.val]]),
                  TRUE))

\* a fresh Mail() or Proxy() in its slot
Fresh(c, slot) == SetO(c, [c.o EXCEPT ![slot] = [settings |-> None]])

\* self._mail = self.Mail(); return self._mail.load()
load_mail(c) ==
  SettingsLoad(Fresh(Called(c, "load_mail"), "_mail"), "_mail",
               "/settings/network/mail")

load_proxy(c) ==
  SettingsLoad(Fresh(Called(c, "load_proxy"), "_proxy"), "_proxy",
               "/settings/network/proxy")

\* load with the users loaded before the scans
LoadOrderUsersFirst ==
  <<"load_properties", "load_mail", "load_proxy", "load_scanners",
    "load_agents", "load_agentgroups", "load_policies", "load_users",
    "load_scans", "load_folders", "load_templates">>

\* the statements "success &= self.load_...()" of load, top to bottom
LoadOrder ==
  <<"load_properties", "load_mail", "load_proxy", "load_scanners",
    "load_agents", "load_agentgroups", "load_policies", "load_scans",
    "load_folders", "load_templates", "load_users">>

SubLoad(name, c) ==
  CASE name = "load_properties" -> load_properties(c)
    [] name = "load_mail" -> load_mail(c)
    [] name = "load_proxy" -> load_proxy(c)
    [] name = "load_scanners" -> load_scanners(c)
    [] name = "load_agents" -> load_agents(c)
    [] name = "load_agentgroups" -> load_agentgroups(c)
    [] name = "load_policies" -> load_policies(c)
    [] name = "load_scans" -> load_scans(c)
    [] name = "load_folders" -> load_folders(c)
    [] name = "load_templates" -> load_templates(c)
    [] name = "load_users" -> load_users(c)

\* the method op returned val to load (history of the run)
Returned(c, op, val) == Emit(c, [ev |-> "ret", op |-> op, val |-> val])

RECURSIVE LoadFrom(_, _, _)
LoadFrom(c, k, success) ==
  IF k > Len(LoadOrder) THEN Ret(c, success)
  ELSE Bind(SubLoad(LoadOrder[k], c),
            LAMBDA r : LoadFrom(Returned(r.c, LoadOrder[k], r.val), k + 1,
                                success /\ r.val))

load(c) == LoadFrom(Called(c, "load"), 1, TRUE)

(***************************************************************************)
(* The client after Nessus(url, port, verify).                             *)
(***************************************************************************)
NessusInit(verify) ==
  [_verify |-> verify,
   _connection |-> None,
   _server_version |-> None,
   _user |-> None,
   _headers |-> ("Content-type" :> "application/json")
                @@ ("Accept" :> "application/json"),
   _mail |-> None,
   _proxy |-> None,
   _agents |-> List(<<>>),
   _agentgroups |-> List(<<>>),
   _policies |-> List(<<>>),
   _templates |-> List(<<>>),
   _scans |-> List(<<>>),
   _folders |-> List(<<>>),
   _users |-> List(<<>>),
   _notifications |-> List(<<>>),
   _scanners |-> List(<<>>),
   _loaded_plugin_set |-> None,
   _uuid |-> 0,
   _expiration |-> None,
   _nessus_ui_version |-> None,
   _nessus_type |-> None,
   _capabilities |-> None,
   _plugin_set |-> None,
   _idle_timeout |-> None,
   _scanner_boottime |-> None]

(***************************************************************************)
(* The inputs of the operations.                                           *)
(***************************************************************************)
\* User(username, password) instances a caller logs in with
Users ==
  {[username |-> "alice", password |-> "pa", token |-> None],
   [username |-> "bob", password |-> "pb", token |-> None]}

Tokens == {"t1", "t2"}

\* answers of POST /session: a token, a refusal, no content
SessionAnswers ==
  {Http(200, Json([token |-> t])) : t \in Tokens}
  \cup {Http(200, Json([status |-> "Invalid Credentials"])),
        Http(200, EmptyBody)}

Outcomes ==
  {"ok", "CannotSendRequest", "ImproperConnectionState", "ECONNREFUSED"}

\* what the next calls of connection.request do; calls beyond the sequence
\* succeed, so a sequence never ends with "ok"
RECURSIVE SeqsOf(_, _)
SeqsOf(S, n) ==
  IF n = 0 THEN {<<>>}
  ELSE LET shorter == SeqsOf(S, n - 1)
       IN shorter \cup {Append(q, x) : q \in shorter, x \in S}

\* during one operation the transport raises one class of stale-connection
\* error, and a refused connection ends the operation
FaultSeqs ==
  {f \in SeqsOf(Outcomes, MaxFaults) :
     /\ f = <<>> \/ f[Len(f)] # "ok"
     /\ \A k \in 1..Len(f) : f[k] = "ECONNREFUSED" => k = Len(f)
     /\ \E x \in StaleConnection : \A k \in 1..Len(f) :
          f[k] \in StaleConnection => f[k] = x}

NoData == [t \in {} |-> None]

\* the server during one operation: login answers POST /session
Srv(login_answer, data) ==
  [family |-> server.family, notfound |-> server.notfound,
   session |-> login_answer, data |-> data]

Begin(faults, srv) ==
  [o |-> nessus, wire |-> <<>>, faults |-> faults, srv |-> srv,
   session |-> session]

\* no operation is running and the caller holds no result
Idle == [op |-> "idle", exc |-> "none", val |-> None]

\* the operation op ran and ended as r
Finish(op, r) ==
  /\ result.op = "idle"
  /\ nessus' = r.c.o
  /\ session' = r.c.session
  /\ wire' = r.c.wire
  /\ result' = [op |-> op, exc |-> r.exc, val |-> r.val]
  /\ UNCHANGED <<server, nloads>>

(***************************************************************************)
(* The operations of a caller.                                             *)
(***************************************************************************)
Login ==
  \E user \in Users, answer \in SessionAnswers, faults \in FaultSeqs :
    Finish("login", login(Begin(faults, Srv(answer, NoData)), user))

\* the answer of POST /session to the login of a recovery
Renewed == Http(200, Json([token |-> "t2"]))

Logout ==
  \E faults \in FaultSeqs :
    Finish("logout", logout(Begin(faults, Srv(Renewed, NoData))))

StatusAnswers ==
  {Http(200, Json([status |-> "ready"])),
   Http(200, Json([error |-> "Invalid Credentials"])),
   Http(200, EmptyBody)}

Status ==
  \E answer \in StatusAnswers, faults \in FaultSeqs :
    Finish("status",
           status(Begin(faults,
                        Srv(Renewed, Target("/server/status") :> answer))))

\* the answers of the server to POST /file/upload
UploadAnswers ==
  {Http(200, Json([fileuploaded |-> JsonStr("scan.nessus")])),
   Http(200, Json([reply |-> "ok"])),
   Http(200, EmptyBody)}

\* the server answering the upload and the import
Importing(upload, path, answer) ==
  Srv(Renewed, (Target("/file/upload") :> upload) @@ (Target(path) :> answer))

UploadFile ==
  \E isfile \in BOOLEAN, upload \in UploadAnswers :
    Finish("upload_file",
           upload_file(Begin(<<>>, Importing(upload, "/scans/import",
                                             Http(200, EmptyBody))),
                       "scan.nessus", isfile))

ImportPolicy ==
  \E isfile \in BOOLEAN, upload \in UploadAnswers,
     answer \in {Http(200, EmptyBody), Http(200, Json([reply |-> "ok"]))} :
    Finish("import_policy",
           import_policy(Begin(<<>>, Importing(upload, "/policies/import",
                                               answer)),
                         "policy.nessus", isfile))

ImportScan ==
  \E isfile \in BOOLEAN, upload \in UploadAnswers,
     answer \in {Http(200, EmptyBody), Http(200, Json([reply |-> "ok"]))},
     folder_id \in {None, [id |-> 1]}, password \in {None, JsonStr("pw")} :
    Finish("import_scan",
           import_scan(Begin(<<>>, Importing(upload, "/scans/import", answer)),
                       "scan.nessus", isfile, folder_id, password))

\* the user setter: nessus.user = User(...)
SetUser ==
  \E user \in Users :
    /\ result.op = "idle"
    /\ nessus' = [nessus EXCEPT !._user = user]
    /\ UNCHANGED <<server, session, wire, result, nloads>>

\* the caller takes the result of the operation that ended
Return ==
  /\ result.op # "idle"
  /\ wire' = <<>>
  /\ result' = Idle
  /\ UNCHANGED <<server, nessus, session, nloads>>

(***************************************************************************)
(* The answers of the server to the collection endpoints.                  *)
(***************************************************************************)
\* the ids of the records a server holds
RecIds == 1..MaxRecs

\* the value of a key of the record with id i
F(key, i) == [f |-> key, of |-> i]

\* the optional keys of a kind; the record with id 1 leaves them out
Optional(kind) ==
  CASE kind = "policies" -> {"no_target"}
    [] kind = "folders" -> {"type", "unread_count"}
    [] kind = "templates" -> {"more_info"}
    [] OTHER -> {}

\* the owner_id of the record with id i: the scan or group 1 is owned by the
\* user 2 and the scan or group 2 by the user 1; a third is owned by a user
\* the server does not list
OwnerIdOf(i) == 3 - i

\* the JSON record with id i of a kind
RawRecord(kind, i) ==
  [key \in Required(kind, <<1>>) \cup (IF i = 1 THEN {} ELSE Optional(kind)) |->
     IF key \in {"id", "folder_id"} THEN i
     ELSE IF key = "owner_id" THEN OwnerIdOf(i)
     ELSE F(key, i)]

RawRecords(kind, ids) == [k \in 1..Len(ids) |-> RawRecord(kind, ids[k])]

\* the collections of a server: no two records of a collection share an id
Payloads ==
  {ids \in SeqsOf(RecIds, MaxRecs) :
     \A j, k \in 1..Len(ids) : ids[j] = ids[k] => j = k}

Collection(kind, ids) ==
  Http(200, Json(KeyOf(kind) :> List(RawRecords(kind, ids))))

ErrorAnswer == Http(200, Json([error |-> "invalid token"]))

\* answers that carry no list: an error, no content, an object without the
\* key, the key with null
OtherAnswers(kind) ==
  {ErrorAnswer, Http(200, EmptyBody), Http(200, Json([reply |-> "ok"])),
   Http(200, Json(KeyOf(kind) :> None))}

Answers(kind) ==
  {Collection(kind, ids) : ids \in Payloads} \cup OtherAnswers(kind)

\* the answers of /scanners/{id}/agents and /scanners/{id}/agent-groups
SubAnswers(kind) ==
  {Collection(kind, <<i>>) : i \in RecIds}
  \cup {ErrorAnswer, Http(200, Json([reply |-> "ok"]))}

PathOf(kind) ==
  CASE kind = "scanners" -> "/scanners"
    [] kind = "agents" -> "/scanners/%d/agents"
    [] kind = "agentgroups" -> "/scanners/%d/agent-groups"
    [] kind = "policies" -> "/policies"
    [] kind = "scans" -> "/scans"
    [] kind = "folders" -> "/folders"
    [] kind = "templates" -> "/editor/scan/templates"
    [] kind = "users" -> "/users"

AnyToken == Http(200, Json([token |-> "t1"]))

\* a server that answers one endpoint
One(kind, answer) == Srv(AnyToken, Target(PathOf(kind)) :> answer)

\* a server that answers the sub-resource of every scanner
PerScanner(kind, answers) ==
  Srv(AnyToken, [t \in {TargetOf(PathOf(kind), i) : i \in RecIds} |->
                   answers[t.id]])

\* the load operation op ran and ended as r
FinishLoad(op, r) ==
  /\ result.op = "idle"
  /\ nloads < MaxLoads
  /\ nessus' = r.c.o
  /\ session' = r.c.session
  /\ wire' = r.c.wire
  /\ result' = [op |-> op, exc |-> r.exc, val |-> r.val]
  /\ nloads' = nloads + 1
  /\ UNCHANGED server

LoadScanners ==
  \E answer \in Answers("scanners") :
    FinishLoad("load_scanners",
               load_scanners(Begin(<<>>, One("scanners", answer))))

LoadAgents ==
  \E answers \in [RecIds -> SubAnswers("agents")] :
    FinishLoad("load_agents",
               load_agents(Begin(<<>>, PerScanner("agents", answers))))

LoadAgentGroups ==
  \E answers \in [RecIds -> SubAnswers("agentgroups")] :
    FinishLoad("load_agentgroups",
               load_agentgroups(Begin(<<>>,
                                      PerScanner("agentgroups", answers))))

LoadPolicies ==
  \E answer \in Answers("policies") :
    FinishLoad("load_policies",
               load_policies(Begin(<<>>, One("policies", answer))))

LoadScans ==
  \E answer \in Answers("scans") :
    FinishLoad("load_scans", load_scans(Begin(<<>>, One("scans", answer))))

LoadFolders ==
  \E answer \in Answers("folders") :
    FinishLoad("load_folders",
               load_folders(Begin(<<>>, One("folders", answer))))

LoadTemplates ==
  \E answer \in Answers("templates") :
    FinishLoad("load_templates",
               load_templates(Begin(<<>>, One("templates", answer))))

LoadUsers ==
  \E answer \in Answers("users") :
    FinishLoad("load_users", load_users(Begin(<<>>, One("users", answer))))

\* the answer of /server/properties?json=1; the version of a server of
\* family 6 is 6.5, of family 5 it is 5.2
PropertiesAnswer ==
  Http(200, Json(
    [key \in {PropertyOrder[k][2] : k \in 1..Len(PropertyOrder)} |->
       IF key = "server_version"
       THEN Str(<<server.family, ".", IF server.family = "6" THEN "5" ELSE "2">>)
       ELSE IF key = "notifications" THEN List(<<>>)
       ELSE F(key, 0)]))

SettingsAnswer(path) == Http(200, Json([settings |-> F(path, 0)]))

LoadProperties ==
  \E answer \in {PropertiesAnswer, ErrorAnswer, Http(200, EmptyBody)},
     faults \in FaultSeqs :
    Finish("load_properties",
           load_properties(Begin(faults,
             Srv(Renewed, Target("/server/properties?json=1") :> answer))))

LoadMail ==
  \E answer \in {SettingsAnswer("/settings/network/mail"), ErrorAnswer} :
    FinishLoad("load_mail",
               load_mail(Begin(<<>>,
                 Srv(AnyToken, Target("/settings/network/mail") :> answer))))

LoadProxy ==
  \E answer \in {SettingsAnswer("/settings/network/proxy"), ErrorAnswer} :
    FinishLoad("load_proxy",
               load_proxy(Begin(<<>>,
                 Srv(AnyToken, Target("/settings/network/proxy") :> answer))))

\* the endpoints load() may reach
LoadTargets ==
  {Target(path) : path \in {"/server/properties?json=1",
                            "/settings/network/mail",
                            "/settings/network/proxy"}}
  \cup {Target(PathOf(kind)) : kind \in Kinds \ {"agents", "agentgroups"}}
  \cup {TargetOf(PathOf(kind), i) : kind \in {"agents", "agentgroups"},
                                    i \in RecIds}

KindAt(path) == CHOOSE kind \in Kinds : PathOf(kind) = path

\* a server whose collections all hold the records ids, and every scanner
\* one agent and one agent group with the id of the scanner
Healthy(t, ids) ==
  IF t.path = "/server/properties?json=1" THEN PropertiesAnswer
  ELSE IF t.path \in {"/settings/network/mail", "/settings/network/proxy"}
  THEN SettingsAnswer(t.path)
  ELSE IF t.id = 0 THEN Collection(KindAt(t.path), ids)
  ELSE Collection(KindAt(t.path), <<t.id>>)

\* an endpoint that fails: an error, no content, an object without the key
Failures == {ErrorAnswer, Http(200, EmptyBody), Http(200, Json([reply |-> "ok"]))}

LoadPayloads == {<<2, 1>>}

\* load() against a healthy server, or one with one failing endpoint
Load ==
  \E ids \in LoadPayloads, bad \in LoadTargets \cup {Target("none")},
     how \in Failures :
    FinishLoad("load",
               load(Begin(<<>>,
                 Srv(AnyToken, [t \in LoadTargets |->
                                  IF t = bad THEN how ELSE Healthy(t, ids)]))))

(***************************************************************************)
(* Reads of the collection properties by a caller.                         *)
(***************************************************************************)
ReadOf(kind) ==
  CASE kind = "scanners" -> "read_scanners"
    [] kind = "agents" -> "read_agents"
    [] kind = "agentgroups" -> "read_agentgroups"
    [] kind = "policies" -> "read_policies"
    [] kind = "scans" -> "read_scans"
    [] kind = "folders" -> "read_folders"
    [] kind = "templates" -> "read_templates"
    [] kind = "users" -> "read_users"

ReadScanners ==
  \E answer \in Answers("scanners") :
    FinishLoad(ReadOf("scanners"),
               scanners(Begin(<<>>, One("scanners", answer))))

ReadAgents ==
  \E answers \in [RecIds -> SubAnswers("agents")] :
    FinishLoad(ReadOf("agents"),
               agents(Begin(<<>>, PerScanner("agents", answers))))

ReadAgentGroups ==
  \E answers \in [RecIds -> SubAnswers("agentgroups")] :
    FinishLoad(ReadOf("agentgroups"),
               agentgroups(Begin(<<>>, PerScanner("agentgroups", answers))))

ReadPolicies ==
  \E answer \in Answers("policies") :
    FinishLoad(ReadOf("policies"),
               policies(Begin(<<>>, One("policies", answer))))

ReadScans ==
  \E answer \in Answers("scans") :
    FinishLoad(ReadOf("scans"), scans(Begin(<<>>, One("scans", answer))))

ReadFolders ==
  \E answer \in Answers("folders") :
    FinishLoad(ReadOf("folders"),
               folders(Begin(<<>>, One("folders", answer))))

ReadTemplates ==
  \E answer \in Answers("templates") :
    FinishLoad(ReadOf("templates"),
               templates(Begin(<<>>, One("templates", answer))))

ReadUsers ==
  \E answer \in Answers("users") :
    FinishLoad(ReadOf("users"), users(Begin(<<>>, One("users", answer))))

(***************************************************************************)
(* A request to the API by a method of the client.                         *)
(***************************************************************************)
\* response bodies: no content, null, an object, an object with an error
\* field, an empty array, an array of records, arrays of strings, a page
Bodies ==
  {EmptyBody, Json(None), Json([reply |-> "ok"]),
   Json([error |-> "invalid token"]),
   Json([error |-> "invalid token", reply |-> "ok"]),
   Json(List(<<>>)), Json(List(RawRecords("folders", <<1>>))),
   Json(List(<<JsonStr("ok")>>)), Json(List(<<JsonStr("error")>>)),
   Html("Nessus")}

ApiTargets == {Target("/scans"), Target("/policies")}

ApiRequest ==
  \E method \in {"GET", "PUT"}, target \in ApiTargets, body \in Bodies,
     params \in {None, EmptyStr, [name |-> "x"]} :
    Finish("_api_request",
           _api_request(Begin(<<>>, Srv(Renewed, target :> Http(200, body))),
                        method, target, params))

(***************************************************************************)
(* Loads of collections in which a record lacks a key the loop reads.      *)
(***************************************************************************)
\* the collections of a server in which the last record has no name
NamelessLast(kind) ==
  {[k \in 1..Len(ids) |->
      IF k = Len(ids)
      THEN [key \in DOMAIN RawRecord(kind, ids[k]) \ {"name"} |->
              RawRecord(kind, ids[k])[key]]
      ELSE RawRecord(kind, ids[k])] :
     ids \in Payloads \ {<<>>}}

Nameless(kind, records) ==
  One(kind, Http(200, Json(KeyOf(kind) :> List(records))))

LoadScansNameless ==
  \E records \in NamelessLast("scans") :
    FinishLoad("load_scans",
               load_scans(Begin(<<>>, Nameless("scans", records))))

LoadTemplatesNameless ==
  \E records \in NamelessLast("templates") :
    FinishLoad("load_templates",
               load_templates(Begin(<<>>, Nameless("templates", records))))

LoadUsersNameless ==
  \E records \in NamelessLast("users") :
    FinishLoad("load_users",
               load_users(Begin(<<>>, Nameless("users", records))))

InitRegistry ==
  /\ server = [family |-> "6", notfound |-> "page"]
  /\ nessus = NessusInit(TRUE)
  /\ session = [granted |-> None, revoked |-> FALSE, credentials |-> None]
  /\ wire = <<>>
  /\ result = Idle
  /\ nloads = 0

NextRegistry ==
  \/ LoadScanners \/ LoadAgents \/ LoadAgentGroups \/ LoadPolicies
  \/ LoadScans \/ LoadFolders \/ LoadTemplates \/ LoadUsers
  \/ Return

SpecRegistry == InitRegistry /\ [][NextRegistry]_vars

NextLoad ==
  Load \/ LoadMail \/ LoadProxy \/ LoadScanners \/ LoadUsers \/ Return

SpecLoad == InitRegistry /\ [][NextLoad]_vars

NextRead ==
  \/ ReadScanners \/ ReadAgents \/ ReadAgentGroups \/ ReadPolicies
  \/ ReadScans \/ ReadFolders \/ ReadTemplates \/ ReadUsers
  \/ Return

SpecRead == InitRegistry /\ [][NextRead]_vars

Init ==
  /\ server \in [family : {"6", "5"}, notfound : {"page", "status"}]
  /\ nessus \in {NessusInit(v) : v \in BOOLEAN}
  /\ session = [granted |-> None, revoked |-> FALSE, credentials |-> None]
  /\ wire = <<>>
  /\ result = Idle
  /\ nloads = 0

NextPartial ==
  \/ LoadScans \/ LoadScansNameless
  \/ LoadTemplates \/ LoadTemplatesNameless
  \/ LoadUsers \/ LoadUsersNameless
  \/ LoadScanners \/ LoadAgents
  \/ Return

SpecPartial == InitRegistry /\ [][NextPartial]_vars

NextApi == ApiRequest \/ Login \/ SetUser \/ Return

SpecApi == Init /\ [][NextApi]_vars

NextUpload ==
  \/ UploadFile \/ ImportPolicy \/ ImportScan
  \/ Login \/ Status \/ Return

SpecUpload == Init /\ [][NextUpload]_vars

\* load_users and load_scans of a caller that refreshes as often as it likes
RefreshUsers ==
  \E answer \in Answers("users") :
    Finish("load_users", load_users(Begin(<<>>, One("users", answer))))

RefreshScans ==
  \E answer \in Answers("scans") :
    Finish("load_scans", load_scans(Begin(<<>>, One("scans", answer))))

NextRefresh == RefreshUsers \/ RefreshScans \/ Return

SpecRefresh == InitRegistry /\ [][NextRefresh]_vars

Next == Login \/ Logout \/ Status \/ SetUser \/ LoadProperties \/ Return

Spec == Init /\ [][Next]_vars

(***************************************************************************)
(* What an operation left on the wire.                                     *)
(***************************************************************************)
Sends == {k \in DOMAIN wire : wire[k].ev = "send"}

Raises == {k \in DOMAIN wire : wire[k].ev = "raise"}

StaleRaises == {k \in Raises : wire[k].exc \in StaleConnection}

\* the operation that ended sent one request the transport refused once as
\* stale, and the server answered its re-issue with 200
RetriedOnce(method, target) ==
  /\ Cardinality(Raises) = 1
  /\ \E k \in StaleRaises :
       /\ wire[k].method = method /\ wire[k].target = target
       /\ \E j \in DOMAIN wire :
            /\ j > k /\ wire[j].ev = "recv"
            /\ wire[j].method = method /\ wire[j].target = target
            /\ wire[j].response.status = 200

\* the answer of the server to the status request of the operation
StatusAnswered(answer) ==
  \E j \in DOMAIN wire :
    /\ wire[j].ev = "recv" /\ wire[j].target = Target("/server/status")
    /\ wire[j].response = answer

(***************************************************************************)
(* C1: when the transport raises a stale-connection condition exactly once *)
(* for a request and then succeeds, _request returns the response body of  *)
(* the re-issued request to its caller: logout, whose DELETE /session was  *)
(* re-issued and answered 200, returns True, and status, whose GET         *)
(* /server/status was re-issued and answered {"status": "ready"}, returns  *)
(* "ready".                                                                *)
(***************************************************************************)
C1_RetryReturnsBody ==
  /\ (result.op = "logout" /\ RetriedOnce("DELETE", Target("/session")))
       => (result.exc = "none" /\ result.val = TRUE)
  /\ (/\ result.op = "status"
      /\ RetriedOnce("GET", Target("/server/status"))
      /\ StatusAnswered(Http(200, Json([status |-> "ready"]))))
       => (result.exc = "none" /\ result.val = "ready")

(***************************************************************************)
(* C2: a stale-connection condition triggers at most one re-issue.  When   *)
(* the transport raises a second stale-connection condition on the very    *)
(* next request (the re-authentication or the re-issued request), the      *)
(* operation ends with that condition and nothing follows it: no           *)
(* connection is created, login is not entered and no request is sent.     *)
(***************************************************************************)
C2_SecondStaleIsFatal ==
  \A j, k \in StaleRaises :
    (j < k /\ \A m \in Sends : ~(j < m /\ m < k))
      => /\ result.exc \in StaleConnection
         /\ \A m \in DOMAIN wire :
              m > k => /\ wire[m].ev \notin {"connect", "send"}
                       /\ ~(wire[m].ev = "call" /\ wire[m].op = "login")

\* a request of the credentials: POST /session
IsLoginPost(e) == e.method = "POST" /\ e.target = Target("/session")

(***************************************************************************)
(* C7: login against a server whose probed version is not of the 6 family  *)
(* raises the unsupported-server error, and no POST /session was sent.     *)
(***************************************************************************)
C7_UnsupportedBeforeSession ==
  (/\ result.op = "login"
   /\ nessus._server_version # None
   /\ Head(nessus._server_version.chars) # "6")
    => /\ result.exc = "Unsupported"
       /\ \A k \in Sends : ~IsLoginPost(wire[k])

C7_Witness ==
  /\ result.op = "login"
  /\ result.exc = "Unsupported"
  /\ nessus._server_version = Str(<<"5", ".", "x">>)
  /\ Sends # {}

(***************************************************************************)
(* C8: every request the client sends after a login succeeded carries the  *)
(* header X-Cookie: token=<token>, with the token of the latest login that *)
(* succeeded.                                                              *)
(***************************************************************************)
C8_CookieOnEveryRequest ==
  \A k \in Sends :
    wire[k].session.granted # None
      => /\ "X-Cookie" \in DOMAIN wire[k].headers
         /\ wire[k].headers["X-Cookie"] =
              Cookie(wire[k].session.granted.token)

\* a status request after a login and a re-login of a recovery, which
\* carries the token of the re-login
C8_Witness ==
  /\ result.op = "status"
  /\ StaleRaises # {}
  /\ \E j, k \in Sends :
       /\ j < k
       /\ wire[j].session.granted = [token |-> "t1"]
       /\ IsLoginPost(wire[j])
       /\ wire[k].session.granted = [token |-> "t2"]
       /\ wire[k].target = Target("/server/status")
       /\ wire[k].headers["X-Cookie"] = Cookie("t2")

(***************************************************************************)
(* C9: logout clears the stored token: once it returned, the client holds  *)
(* no token and no X-Cookie header, and until a new login no request is    *)
(* sent for the session the server ended (a request of the credentials     *)
(* aside).                                                                 *)
(***************************************************************************)
C9_LogoutClearsToken ==
  /\ (result.op = "logout" /\ result.exc = "none")
       => /\ "X-Cookie" \notin DOMAIN nessus._headers
          /\ nessus._user # None => nessus._user.token = None
  /\ \A k \in Sends :
       (wire[k].session.revoked /\ ~IsLoginPost(wire[k]))
         => "X-Cookie" \notin DOMAIN wire[k].headers

(***************************************************************************)
(* What a load operation fetched.                                          *)
(***************************************************************************)
LoadOf(kind) ==
  CASE kind = "scanners" -> "load_scanners"
    [] kind = "agents" -> "load_agents"
    [] kind = "agentgroups" -> "load_agentgroups"
    [] kind = "policies" -> "load_policies"
    [] kind = "scans" -> "load_scans"
    [] kind = "folders" -> "load_folders"
    [] kind = "templates" -> "load_templates"
    [] kind = "users" -> "load_users"

\* the responses of the endpoint of a kind
Fetched(w, kind) ==
  {k \in DOMAIN w : w[k].ev = "recv" /\ w[k].target.path = PathOf(kind)}

\* the response e carries a list of records of a kind
HasList(e, kind) ==
  /\ "json" \in DOMAIN e.response.body
  /\ KeyOf(kind) \in DOMAIN e.response.body.json
  /\ e.response.body.json[KeyOf(kind)] # None

\* the response e carries an error field
HasError(e) ==
  /\ e.ev = "recv"
  /\ "json" \in DOMAIN e.response.body
  /\ "error" \in DOMAIN e.response.body.json

\* one instance per record of the responses of w from the k-th event on, in
\* the order of the responses and of the records in them
RECURSIVE HydratedFrom(_, _, _, _)
HydratedFrom(w, kind, known, k) ==
  IF k > Len(w) THEN <<>>
  ELSE (IF k \in Fetched(w, kind) /\ HasList(w[k], kind)
        THEN LET records == w[k].response.body.json[KeyOf(kind)].list
             IN [i \in DOMAIN records |->
                   Hydrate(kind, records[i], known, w[k].target.id)]
        ELSE <<>>)
       \o HydratedFrom(w, kind, known, k + 1)

\* the load of a kind that ended succeeded, and every response it fetched
\* carried a list
LoadedLists(kind) ==
  /\ result.op = LoadOf(kind)
  /\ result.exc = "none"
  /\ result.val = TRUE
  /\ Fetched(wire, kind) # {}
  /\ \A k \in Fetched(wire, kind) : HasList(wire[k], kind)

\* the hydrated form of what the load that ended fetched
Payload(kind) == HydratedFrom(wire, kind, nessus._users.list, 1)

(***************************************************************************)
(* C3: a load of a kind over a collection that an earlier load filled from *)
(* a different payload leaves the collection equal to the hydrated form of *)
(* the later payload only: no record of the earlier payload survives.      *)
(***************************************************************************)
C3_ReloadReplaces ==
  [][\A kind \in Kinds :
       (/\ LoadedLists(kind)'
        /\ Coll(nessus, kind).list # <<>>
        /\ Coll(nessus, kind).list # Payload(kind)')
         => Coll(nessus', kind).list = Payload(kind)']_vars

(***************************************************************************)
(* C4: after a successful load of a kind, whatever the registry held       *)
(* before, the collection of the kind holds exactly one hydrated instance  *)
(* per record of the response, in the order of the response (for agents    *)
(* and agent groups: of the responses, in the order of the scanners).      *)
(***************************************************************************)
C4_ExactlyTheResponse ==
  \A kind \in Kinds :
    LoadedLists(kind) => Coll(nessus, kind).list = Payload(kind)

\* the collections and config slots of the registry
Registry(o) ==
  <<o._scanners, o._agents, o._agentgroups, o._policies, o._scans,
    o._folders, o._templates, o._users, o._mail, o._proxy>>

\* a response of the operation that ended carried an error field
ErrorAnswered == result.op # "idle" /\ \E k \in DOMAIN wire : HasError(wire[k])

(***************************************************************************)
(* C5: a load that receives a response with an error field raises          *)
(* NessusAPIError and leaves every collection and config slot of the       *)
(* registry as it was before the load started.                             *)
(***************************************************************************)
C5_ErrorLeavesRegistry ==
  [][ErrorAnswered'
       => /\ result'.exc = "NessusAPIError"
          /\ Registry(nessus') = Registry(nessus)]_vars

\* the users of the registry with id n
UsersWithId(n) ==
  {u \in DOMAIN nessus._users.list : nessus._users.list[u].id = n}

(***************************************************************************)
(* C6: after load_scans returned, the owner of a scan with owner_id n      *)
(* is a user of the registry with id n, and it is set whenever the users   *)
(* hold one; with no users loaded, load_scans sends no request to /users,  *)
(* does not enter load_users, leaves every owner unset and, given a list   *)
(* of scans, ends without error.                                           *)
(***************************************************************************)
C6_OwnerNeedsUsers ==
  result.op = "load_scans" =>
    /\ result.exc = "none" =>
         \A k \in DOMAIN nessus._scans.list :
           LET scan == nessus._scans.list[k]
               hits == UsersWithId(OwnerIdOf(scan.id))
           IN IF hits = {} THEN scan.owner = None
              ELSE \E u \in hits : scan.owner = nessus._users.list[u]
    /\ nessus._users.list = <<>> =>
         /\ \A k \in Sends : wire[k].target.path # "/users"
         /\ \A k \in DOMAIN wire :
              ~(wire[k].ev = "call" /\ wire[k].op = "load_users")
         /\ (\E k \in Fetched(wire, "scans") : HasList(wire[k], "scans"))
              => (result.exc = "none" /\ result.val = TRUE)

\* load_users, then load_scans: a scan owned by a loaded user
C6_Witness ==
  /\ result.op = "load_scans"
  /\ \E k \in DOMAIN nessus._scans.list :
       /\ nessus._scans.list[k].owner # None
       /\ nessus._scans.list[k].owner.id = OwnerIdOf(nessus._scans.list[k].id)

\* the order of the loads the claim C10 states
ClaimedOrder ==
  <<"load_properties", "load_mail", "load_proxy", "load_scanners",
    "load_agents", "load_agentgroups", "load_policies", "load_scans",
    "load_folders", "load_templates", "load_users">>

IsLoadCall(e) == e.ev = "call" /\ e.op \notin {"load", "login"}

\* the per-kind loads the operation entered, in the order it entered them
Invoked == SelectSeq(wire, IsLoadCall)

(***************************************************************************)
(* C10: load() enters the per-kind loads in the order properties, mail,    *)
(* proxy, scanners, agents, agent groups, policies, scans, folders,        *)
(* templates, users, each at most once, and all of them when it returns.   *)
(***************************************************************************)
C10_LoadOrder ==
  result.op = "load" =>
    /\ Len(Invoked) <= Len(ClaimedOrder)
    /\ \A k \in DOMAIN Invoked : Invoked[k].op = ClaimedOrder[k]
    /\ result.exc = "none" => Len(Invoked) = Len(ClaimedOrder)

C10_Witness ==
  /\ result.op = "load"
  /\ result.exc = "none"
  /\ Len(Invoked) = Len(ClaimedOrder)
  /\ nessus._scanners.list # <<>>

\* the loads of the load() that ended which returned False
ReturnedFalse ==
  {k \in DOMAIN wire : wire[k].ev = "ret" /\ wire[k].val = FALSE}

\* the kinds whose load assigns a new list, and whose load returned True
\* to the load() that ended
LoadedBy(kind) ==
  \E k \in DOMAIN wire :
    wire[k].ev = "ret" /\ wire[k].op = LoadOf(kind) /\ wire[k].val = TRUE

(***************************************************************************)
(* C11: in load(), a load that returns False ends the sequence: no load is *)
(* entered and no request is sent after it, and load() returns False; the  *)
(* policies, folders and templates that a load of the sequence fetched     *)
(* before load() ended, by a return or by an exception, are in the         *)
(* registry.                                                               *)
(***************************************************************************)
C11_FailedSubLoadAborts ==
  result.op = "load" =>
    /\ \A k \in ReturnedFalse :
         \A m \in DOMAIN wire : m > k => wire[m].ev \notin {"call", "send"}
    /\ ReturnedFalse # {} => (result.exc = "none" /\ result.val = FALSE)
    /\ \A kind \in {"policies", "folders", "templates"} :
         (LoadedBy(kind) /\ \A k \in Fetched(wire, kind) : HasList(wire[k], kind))
           => Coll(nessus, kind).list = Payload(kind)

\* the operation that ended entered the method op
Entered(op) == \E k \in DOMAIN wire : wire[k].ev = "call" /\ wire[k].op = op

(***************************************************************************)
(* C12: the first read of a collection property on a client that loaded    *)
(* nothing runs the load of the collection and returns the collection of   *)
(* the registry, which holds what the load fetched.                        *)
(***************************************************************************)
C12_FirstReadLoads ==
  \A kind \in Kinds :
    (nloads = 1 /\ result.op = ReadOf(kind)) =>
      /\ Entered(LoadOf(kind))
      /\ result.exc = "none" => result.val = Coll(nessus, kind)
      /\ (/\ result.exc = "none"
          /\ Fetched(wire, kind) # {}
          /\ \A k \in Fetched(wire, kind) : HasList(wire[k], kind))
           => result.val.list = Payload(kind)

\* the ids of the scanners of the registry
ScannerIds == {nessus._scanners.list[k].id : k \in DOMAIN nessus._scanners.list}

(***************************************************************************)
(* C13: every agent of the registry has the scanner_id of a scanner of     *)
(* the registry, and after load_agents every agent a scanner's endpoint    *)
(* /scanners/{id}/agents returned is in the registry with that id as its   *)
(* scanner_id.                                                             *)
(***************************************************************************)
C13_AgentBackReference ==
  /\ \A a \in DOMAIN nessus._agents.list :
       nessus._agents.list[a].scanner_id \in ScannerIds
  /\ result.op = "load_agents" =>
       \A k \in Fetched(wire, "agents") :
         HasList(wire[k], "agents") =>
           \A i \in DOMAIN wire[k].response.body.json.agents.list :
             \E a \in DOMAIN nessus._agents.list :
               /\ nessus._agents.list[a].id =
                    wire[k].response.body.json.agents.list[i].id
               /\ nessus._agents.list[a].uuid =
                    wire[k].response.body.json.agents.list[i].uuid
               /\ nessus._agents.list[a].scanner_id = wire[k].target.id

\* load_scanners, then load_agents: the endpoint of one scanner returned an
\* agent with another id than the scanner's
C13_Witness ==
  /\ result.op = "load_agents"
  /\ result.exc = "none"
  /\ \E a \in DOMAIN nessus._agents.list :
       /\ nessus._agents.list[a].scanner_id # nessus._agents.list[a].id
       /\ nessus._agents.list[a].scanner_id \in ScannerIds

\* the body the server answered to the request of the operation that ended
Answered(body) ==
  \E k \in DOMAIN wire :
    /\ wire[k].ev = "recv" /\ wire[k].target \in ApiTargets
    /\ wire[k].response.body = body

IsJson(body) == "json" \in DOMAIN body

\* the parsed body is an object with an error field
ErrorField(body) ==
  /\ IsJson(body) /\ body.json # None
  /\ "list" \notin DOMAIN body.json
  /\ "error" \in DOMAIN body.json

(***************************************************************************)
(* C14: _api_request returns the parsed value of a non-empty JSON body     *)
(* without an error field, raises NessusAPIError for a body with an error  *)
(* field, and returns None exactly when the body is empty.                 *)
(***************************************************************************)
C14_ApiRequestContract ==
  \A body \in Bodies :
    (result.op = "_api_request" /\ Answered(body)) =>
      /\ (IsJson(body) /\ ~ErrorField(body))
           => (result.exc = "none" /\ result.val = body.json)
      /\ ErrorField(body) => result.exc = "NessusAPIError"
      /\ (result.exc = "none" /\ result.val = None) <=> body = EmptyBody

\* the operation that ended entered the method first before the method then
Before(first, then) ==
  \E j, k \in DOMAIN wire :
    /\ j < k
    /\ wire[j].ev = "call" /\ wire[j].op = first
    /\ wire[k].ev = "call" /\ wire[k].op = then

(***************************************************************************)
(* C15: load() loads the scanners before the agents and the agent groups   *)
(* and the users before the scans: after a successful load() on a fresh    *)
(* client, every scan whose owner_id is the id of a user the users         *)
(* endpoint returned has that user as its owner.                           *)
(***************************************************************************)
C15_DependencyOrder ==
  (result.op = "load" /\ result.exc = "none" /\ result.val = TRUE /\ nloads = 1)
    => /\ Before("load_scanners", "load_agents")
       /\ Before("load_scanners", "load_agentgroups")
       /\ Before("load_users", "load_scans")
       /\ \A k \in DOMAIN nessus._scans.list :
            LET hits == UsersWithId(OwnerIdOf(nessus._scans.list[k].id))
            IN hits # {} =>
                 \E u \in hits :
                   nessus._scans.list[k].owner = nessus._users.list[u]

\* the collection of a kind in o is the complete hydrated form of the list
\* the response e carries
CompleteFormOf(e, kind, o) ==
  /\ HasList(e, kind)
  /\ LET records == e.response.body.json[KeyOf(kind)].list
     IN /\ \A i \in DOMAIN records :
             Required(kind, o._users.list) \subseteq DOMAIN records[i]
        /\ Coll(o, kind).list =
             [i \in DOMAIN records |->
                Hydrate(kind, records[i], o._users.list, e.target.id)]

(***************************************************************************)
(* C16: every step leaves each collection of the registry as it was or     *)
(* makes it the complete hydrated form of one response of its endpoint: a  *)
(* load that fails part-way leaves no prefix of the records and no emptied *)
(* collection.                                                             *)
(***************************************************************************)
C16_AtomicCollections ==
  [][\A kind \in Kinds :
       \/ Coll(nessus', kind) = Coll(nessus, kind)
       \/ \E k \in Fetched(wire', kind) :
            CompleteFormOf(wire'[k], kind, nessus')]_vars

\* the value is an element of the collection of a kind
MemberOf(value, kind) ==
  \E k \in DOMAIN Coll(nessus, kind).list : Coll(nessus, kind).list[k] = value

(***************************************************************************)
(* C17: after load_scans has hydrated the scans, the owner, the folder and *)
(* the template of every scan is unset or is an element of the users, the  *)
(* folders and the templates of the registry.                              *)
(***************************************************************************)
C17_ReferencesResolve ==
  (result.op = "load_scans" /\ result.exc = "none")
    => \A k \in DOMAIN nessus._scans.list :
         LET scan == nessus._scans.list[k]
         IN /\ scan.owner = None \/ MemberOf(scan.owner, "users")
            /\ scan.folder = None \/ MemberOf(scan.folder, "folders")
            /\ scan.template = None \/ MemberOf(scan.template, "templates")

\* the part of C17 about the owner alone
C17_OwnerResolves ==
  (result.op = "load_scans" /\ result.exc = "none")
    => \A k \in DOMAIN nessus._scans.list :
         \/ nessus._scans.list[k].owner = None
         \/ MemberOf(nessus._scans.list[k].owner, "users")

Connects == {k \in DOMAIN wire : wire[k].ev = "connect"}

(***************************************************************************)
(* C18: every connection the client creates, the first one and every one   *)
(* created while recovering from a stale connection, verifies the          *)
(* certificate exactly when the caller set verify: the connection the      *)
(* object holds and every connection an operation created follow _verify.  *)
(***************************************************************************)
C18_VerifyPolicy ==
  /\ \A k \in Connects : wire[k].verified = nessus._verify
  /\ nessus._connection # None
       => nessus._connection.verified = nessus._verify

\* the part of C18 about operations in which the transport raised no stale
\* connection
C18_FirstConnection ==
  StaleRaises = {} => \A k \in Connects : wire[k].verified = nessus._verify

\* the re-issues of a stale handler: its calls of _request
Reissues == {k \in DOMAIN wire : wire[k].ev = "call" /\ wire[k].op = "_request"}

\* the server answered the request with a token
GrantsToken(e) ==
  /\ e.ev = "recv" /\ IsLoginPost(e)
  /\ "json" \in DOMAIN e.response.body
  /\ e.response.body.json # None
  /\ "token" \in DOMAIN e.response.body.json

\* the request sent at j carries the token the answer at q granted
CarriesTokenOf(j, q) ==
  /\ "X-Cookie" \in DOMAIN wire[j].headers
  /\ wire[j].headers["X-Cookie"] = Cookie(wire[q].response.body.json.token)

(***************************************************************************)
(* C19: in an operation with one stale-connection condition, raised for    *)
(* the request at k, the recovery runs in this order: a fresh connection   *)
(* is created right after the condition and no other connection after it;  *)
(* then the credentials are posted to /session on it; then the failed      *)
(* request is sent again carrying the token that POST was answered with.   *)
(***************************************************************************)
C19_RecoveryOrder ==
  \A k \in StaleRaises :
    Cardinality(StaleRaises) = 1
      => /\ k + 1 \in Connects
         /\ \A c \in Connects : c <= k + 1
         /\ \A r \in Reissues :
              /\ r > k + 1
              /\ r + 1 \in Sends
              /\ wire[r + 1].method = wire[k].method
              /\ wire[r + 1].target = wire[k].target
              /\ \E p \in Sends, q \in DOMAIN wire :
                   /\ k + 1 < p /\ p < q /\ q < r
                   /\ IsLoginPost(wire[p])
                   /\ GrantsToken(wire[q])
                   /\ CarriesTokenOf(r + 1, q)

\* the order of C19 without the token: connection, login, request again
C19_OrderAlone ==
  \A k \in StaleRaises :
    Cardinality(StaleRaises) = 1
      => /\ k + 1 \in Connects
         /\ \A c \in Connects : c <= k + 1
         /\ \A r \in Reissues :
              /\ r + 1 \in Sends
              /\ wire[r + 1].method = wire[k].method
              /\ wire[r + 1].target = wire[k].target
              /\ \E l \in DOMAIN wire :
                   /\ k + 1 < l /\ l < r
                   /\ wire[l].ev = "call" /\ wire[l].op = "login"

\* the requests of the credentials a stale handler made: POST /session after
\* the condition and before the handler sends the failed request again
Reauthentications ==
  {p \in Sends : /\ IsLoginPost(wire[p])
                 /\ \E k \in StaleRaises : k < p
                 /\ \A r \in Reissues : p < r}

(***************************************************************************)
(* C20: in an operation with one stale-connection condition, the           *)
(* credentials the recovery posts to /session are those of the most recent *)
(* login that succeeded, whatever logins and assignments of the user       *)
(* property came before; when no login succeeded yet there are no          *)
(* credentials and none are posted.                                        *)
(***************************************************************************)
C20_LastLoginCredentials ==
  Cardinality(StaleRaises) = 1
    => \A p \in Reauthentications :
         /\ wire[p].session.credentials # None
         /\ wire[p].params = wire[p].session.credentials

\* the credentials the recovery posts are those of the user the object holds
C20_HeldUserCredentials ==
  Cardinality(StaleRaises) = 1
    => \A p \in Reauthentications :
         /\ nessus._user # None
         /\ wire[p].params = Credentials(nessus._user)

\* the requests of an operation to the JSON API: all but the upload itself
JsonSends == {k \in Sends : wire[k].target # Target("/file/upload")}

(***************************************************************************)
(* C21: every request to the JSON API, whatever operations came before     *)
(* (upload_file, import_policy and import_scan included), carries the      *)
(* headers Content-type: application/json and Accept: application/json;    *)
(* only the request to /file/upload may carry a multipart content type.    *)
(***************************************************************************)
C21_FixedHeaders ==
  \A k \in JsonSends :
    /\ wire[k].headers["Content-type"] = "application/json"
    /\ wire[k].headers["Accept"] = "application/json"

\* the fixed headers hold as long as the object uploaded no file
C21_UntilUpload ==
  nessus._headers["Content-type"] = "application/json"
    => \A k \in JsonSends :
         /\ wire[k].headers["Content-type"] = "application/json"
         /\ wire[k].headers["Accept"] = "application/json"

(***************************************************************************)
(* C22: once the server version was probed, no step changes it: whatever   *)
(* login or load follows, load_properties included, _server_version keeps  *)
(* the value the probe gave it.                                            *)
(***************************************************************************)
C22_VersionImmutable ==
  [][nessus._server_version # None
       => nessus'._server_version = nessus._server_version]_vars

\* the version is kept by every operation but load_properties
C22_KeptButByProperties ==
  [][(nessus._server_version # None /\ result'.op # "load_properties")
       => nessus'._server_version = nessus._server_version]_vars

(***************************************************************************)
(* C23: load_users never touches the scans: whether it replaces the users  *)
(* or fails, the scans collection after it is the one before it, and every *)
(* scan keeps the owner it was hydrated with, also when that user is no    *)
(* longer among the users of the registry.                                 *)
(***************************************************************************)
C23_RefreshKeepsReferences ==
  [][result'.op = "load_users" => nessus'._scans = nessus._scans]_vars

\* load_users replaced the users and a scan is owned by a user that is gone
C23_Witness ==
  /\ result.op = "load_users" /\ result.exc = "none" /\ result.val = TRUE
  /\ \E k \in DOMAIN nessus._scans.list :
       /\ nessus._scans.list[k].owner # None
       /\ ~MemberOf(nessus._scans.list[k].owner, "users")

\* the collections whose property tests "not len(...)"
EmptinessGuarded == {"scanners", "templates", "folders"}

\* the operation sent a request to the endpoint of the kind
Requested(w, kind) ==
  \E k \in DOMAIN w : w[k].ev = "send" /\ w[k].target.path = PathOf(kind)

(***************************************************************************)
(* C24: a read of the scanners, templates or folders property sends a      *)
(* request to the endpoint exactly when the collection is empty before the *)
(* read: an empty collection is fetched on every read, also when an        *)
(* earlier load found the server's collection empty, and a non-empty one   *)
(* is returned without a fetch.                                            *)
(***************************************************************************)
C24_EmptyRefetched ==
  [][\A kind \in EmptinessGuarded :
       result'.op = ReadOf(kind)
         => (Requested(wire', kind) <=> Coll(nessus, kind).list = <<>>)]_vars

\* the second read of the run fetched a collection the server holds empty
C24_Witness ==
  \E kind \in EmptinessGuarded :
    /\ nloads = MaxLoads /\ result.op = ReadOf(kind) /\ result.exc = "none"
    /\ Requested(wire, kind)
    /\ \E k \in Fetched(wire, kind) :
         HasList(wire[k], kind) /\ CompleteFormOf(wire[k], kind, nessus)
    /\ Coll(nessus, kind).list = <<>>

\* the response e is a JSON object without an error that lacks the key of
\* the kind or carries null for it
LacksList(e, kind) ==
  /\ "json" \in DOMAIN e.response.body
  /\ e.response.body.json # None
  /\ "list" \notin DOMAIN e.response.body.json
  /\ "error" \notin DOMAIN e.response.body.json
  /\ \/ KeyOf(kind) \notin DOMAIN e.response.body.json
     \/ e.response.body.json[KeyOf(kind)] = None

\* the kinds C25 names
KeyTested == {"scans", "templates", "policies", "folders", "users", "scanners"}

(***************************************************************************)
(* C25: a load whose response is a JSON object that lacks the key of the   *)
(* collection, or carries null for it, leaves the collection of its kind   *)
(* as it was, for scans, templates, policies, folders, users and scanners  *)
(* alike.                                                                  *)
(***************************************************************************)
C25_MissingKeyKeeps ==
  [][\A kind \in KeyTested :
       (/\ result'.op = LoadOf(kind)
        /\ \E k \in Fetched(wire', kind) : LacksList(wire'[k], kind))
         => Coll(nessus', kind) = Coll(nessus, kind)]_vars

\* the kinds that keep the collection when the key is missing or null
C25_KeptByPoliciesUsersScanners ==
  [][\A kind \in {"policies", "users", "scanners"} :
       (/\ result'.op = LoadOf(kind)
        /\ \E k \in Fetched(wire', kind) : LacksList(wire'[k], kind))
         => Coll(nessus', kind) = Coll(nessus, kind)]_vars

====
